---- MODULE Spec2Model ----
(***************************************************************************)
(* BRD diagram agent: the import-time agent construction of                *)
(* enhanced_agent_brd.py, its command-line run (__main__) and the          *)
(* Streamlit script apps.py, run repeatedly over one output directory.     *)
(*                                                                         *)
(* Strings are sequences of tokens: "a" is any non-blank character, " "    *)
(* and "\n" are whitespace, and a file extension is one token, so that     *)
(* str.strip() and str.endswith() are computed and not assumed.            *)
(***************************************************************************)
EXTENDS Naturals, Sequences, FiniteSets, TLC

VARIABLES
    pc,                 \* position of the process / of the running script
    entry,              \* "web" (apps.py) or "cli" (enhanced_agent_brd.__main__)
    PDF_AVAILABLE,      \* enhanced_agent_brd.py:29-34
    MERMAID_AVAILABLE,  \* enhanced_agent_brd.py:36-41
    agent,              \* enhanced_agent_brd.py:194
    attempts,           \* agent constructions attempted by build_agent, in order
    generate_btn,       \* apps.py:59
    file,               \* apps.py:44 uploaded_file / the file user_input names
    user_input,         \* enhanced_agent_brd.py:236
    brd_text,           \* apps.py:51, enhanced_agent_brd.py:240
    extracted, dfd, logic, db,   \* the run's locals
    rendered,           \* return values of render_and_save_mermaid, per kind
    calls,              \* generative-service calls issued by the current run
    fs,                 \* the output directory: file name -> content
    written,            \* output files written by the current run
    conv,               \* position of the svg -> pdf loop (apps.py:141)
    tried,              \* kinds whose svg -> pdf conversion the current run called
    shown,              \* what the page offers: downloads and previews
    outcome             \* how the current run ended

vars == << pc, entry, PDF_AVAILABLE, MERMAID_AVAILABLE, agent, attempts,
           generate_btn, file, user_input, brd_text, extracted, dfd, logic, db,
           rendered, calls, fs, written, conv, tried, shown, outcome >>

-----------------------------------------------------------------------------
(* Bounds *)

MaxLen == 1         \* longest typed text, in tokens
MaxToolCalls == 1   \* tool calls the agent makes in one invocation

-----------------------------------------------------------------------------
(* Values *)

\* Python's None where a file is expected, and where an agent is expected
None == [ext |-> "", ok |-> FALSE]
NoAgent == "None"
\* A local not yet assigned; an exception raised instead of a string returned
Unset == <<"<unset>">>
Fail == <<"<exception>">>

Kinds == <<"DFD", "Logic", "ERD">>
KindSet == {"DFD", "Logic", "ERD"}
Exts == {".txt", ".md", ".pdf", ".docx"}
Spaces == {" ", "\n"}

RECURSIVE SeqsUpTo(_, _)
SeqsUpTo(S, n) ==
    IF n = 0 THEN {<<>>}
    ELSE LET shorter == SeqsUpTo(S, n - 1)
         IN  shorter \cup {Append(s, c) : s \in shorter, c \in S}

Texts == SeqsUpTo({" ", "a"}, MaxLen)
Bodies == {<<>>, <<"a">>}
Paths == {<<"a", e>> : e \in Exts}
\* What the generative service may return: for the extraction prompt one of two
\* texts, for each diagram prompt the markup of that diagram.
Replies(op) ==
    CASE op = "ParseBRD" -> {<<"facts1">>, <<"facts2">>}
      [] op = "GenDFD" -> {<<"flowchart">>}
      [] op = "GenLogic" -> {<<"graph">>}
      [] op = "GenDB" -> {<<"erDiagram">>}
Files == [ext : Exts, ok : BOOLEAN]

\* str.strip()
RECURSIVE LStrip(_)
LStrip(s) == IF s # <<>> /\ Head(s) \in Spaces THEN LStrip(Tail(s)) ELSE s
RECURSIVE RStrip(_)
RStrip(s) ==
    IF s # <<>> /\ s[Len(s)] \in Spaces THEN RStrip(SubSeq(s, 1, Len(s) - 1)) ELSE s
Strip(s) == RStrip(LStrip(s))

\* str.endswith(tuple)
EndsWith(s, suffixes) == s # <<>> /\ s[Len(s)] \in suffixes

svg_name(k) == CASE k = "DFD" -> "dfd.svg" [] k = "Logic" -> "logic.svg" [] k = "ERD" -> "erd.svg"
mmd_name(k) == CASE k = "DFD" -> "dfd.mmd" [] k = "Logic" -> "logic.mmd" [] k = "ERD" -> "erd.mmd"
pdf_name(k) == CASE k = "DFD" -> "dfd.pdf" [] k = "Logic" -> "logic.pdf" [] k = "ERD" -> "erd.pdf"
FileNames == {svg_name(k) : k \in KindSet} \cup {mmd_name(k) : k \in KindSet}
                \cup {pdf_name(k) : k \in KindSet}
NoFile == <<"<no file>">>
exists(name) == fs[name] # NoFile

NoLocals ==
    /\ extracted' = Unset /\ dfd' = Unset /\ logic' = Unset /\ db' = Unset
    /\ rendered' = [k \in KindSet |-> Unset]
    /\ calls' = <<>> /\ written' = {} /\ conv' = 0 /\ tried' = {} /\ shown' = {}

-----------------------------------------------------------------------------
(* Process start: module import of enhanced_agent_brd *)

Init ==
    /\ pc = "import"
    /\ entry \in {"web", "cli"}
    /\ PDF_AVAILABLE \in BOOLEAN
    /\ MERMAID_AVAILABLE \in BOOLEAN
    /\ agent = "unbuilt"
    /\ attempts = <<>>
    /\ tried = {}
    /\ generate_btn = FALSE
    /\ file = None
    /\ user_input = <<>>
    /\ brd_text = <<>>
    /\ extracted = Unset /\ dfd = Unset /\ logic = Unset /\ db = Unset
    /\ rendered = [k \in KindSet |-> Unset]
    /\ calls = <<>>
    /\ fs = [n \in FileNames |-> NoFile]
    /\ written = {}
    /\ conv = 0
    /\ shown = {}
    /\ outcome = "none"

\* build_agent without the return at line 170: the first construction falls
\* through to the second.
build_agent_fallthrough(first, second) ==
    IF second
    THEN [agent |-> "initialize_agent",
          attempts |-> << [by |-> "create_react_agent", ok |-> first],
                          [by |-> "initialize_agent", ok |-> TRUE] >>]
    ELSE [agent |-> NoAgent,
          attempts |-> << [by |-> "create_react_agent", ok |-> first],
                          [by |-> "initialize_agent", ok |-> FALSE] >>]

\* enhanced_agent_brd.py:158-192.  first, second: whether create_react_agent /
\* initialize_agent can be constructed in this environment.
build_agent(first, second) ==
    IF first
    THEN [agent |-> "AgentExecutor",
          attempts |-> << [by |-> "create_react_agent", ok |-> TRUE] >>]
    ELSE IF second
    THEN [agent |-> "initialize_agent",
          attempts |-> << [by |-> "create_react_agent", ok |-> FALSE],
                          [by |-> "initialize_agent", ok |-> TRUE] >>]
    ELSE [agent |-> NoAgent,
          attempts |-> << [by |-> "create_react_agent", ok |-> FALSE],
                          [by |-> "initialize_agent", ok |-> FALSE] >>]

\* Where a finished script leaves the process: Streamlit waits for the next
\* rerun, the command-line process exits.
EndPc == IF entry = "web" THEN "ready" ELSE "exited"

\* enhanced_agent_brd.py:194, executed once when the module is imported
Import ==
    /\ pc = "import"
    /\ \E first \in BOOLEAN, second \in BOOLEAN :
          LET b == build_agent(first, second)
          IN  agent' = b.agent /\ attempts' = b.attempts
    /\ pc' = "ready"
    /\ UNCHANGED << entry, PDF_AVAILABLE, MERMAID_AVAILABLE, generate_btn,
                    file, user_input, brd_text, extracted, dfd, logic, db,
                    rendered, calls, fs, written, conv, tried, shown, outcome >>

\* A new process is started over the same output directory.
Restart ==
    /\ pc \in {"ready", "exited"}
    /\ pc' = "import"
    /\ entry' \in {"web", "cli"}
    /\ agent' = "unbuilt" /\ attempts' = <<>>
    /\ generate_btn' = FALSE /\ file' = None /\ user_input' = <<>> /\ brd_text' = <<>>
    /\ NoLocals
    /\ outcome' = "none"
    /\ UNCHANGED << PDF_AVAILABLE, MERMAID_AVAILABLE, fs >>

-----------------------------------------------------------------------------
(* Ingestion *)

Raise == Fail

\* Streamlit runs apps.py again from its first line: nothing of the previous
\* script run is kept but the imported module and the output directory.
Rerun ==
    /\ pc = "ready" /\ entry = "web"
    /\ file' = None /\ brd_text' = <<>> /\ generate_btn' = FALSE
    /\ NoLocals
    /\ outcome' = "running"
    /\ pc' = "widgets"
    /\ UNCHANGED << entry, PDF_AVAILABLE, MERMAID_AVAILABLE, agent, attempts,
                    user_input, fs >>

\* apps.py:44-59: the widgets of one script run
Widgets ==
    /\ pc = "widgets"
    /\ file' \in Files \cup {None}
    /\ brd_text' \in Texts
    /\ generate_btn' \in BOOLEAN
    /\ pc' = "process"
    /\ UNCHANGED << entry, PDF_AVAILABLE, MERMAID_AVAILABLE, agent, attempts,
                    user_input, extracted, dfd, logic, db, rendered, calls, fs,
                    written, conv, tried, shown, outcome >>

\* apps.py:63-90: the text read from uploaded file f holding `body`
read_upload(f, body) ==
    IF f.ext = ".pdf"
    THEN IF f.ok THEN body \o <<"\n">> ELSE <<>>
    ELSE IF f.ext = ".docx"
    THEN IF f.ok THEN body ELSE <<>>
    ELSE IF f.ok THEN body ELSE Raise

\* apps.py:61-93 and 249-250
ProcessInput ==
    /\ pc = "process"
    /\ generate_btn' = FALSE
    /\ IF ~(generate_btn \/ file # None \/ Strip(brd_text) # <<>>)
       THEN /\ outcome' = "InputAbsent" /\ pc' = EndPc
            /\ UNCHANGED brd_text
       ELSE IF file # None
       THEN \E body \in Bodies :
               LET text == read_upload(file, body)
               IN  IF text = Raise
                   THEN outcome' = "Exception" /\ pc' = EndPc /\ UNCHANGED brd_text
                   ELSE outcome' = "running" /\ pc' = "run" /\ brd_text' = text
       ELSE IF Strip(brd_text) = <<>>
       THEN /\ outcome' = "InputAbsent" /\ pc' = EndPc
            /\ UNCHANGED brd_text
       ELSE /\ outcome' = "running" /\ pc' = "run"
            /\ UNCHANGED brd_text
    /\ UNCHANGED << entry, PDF_AVAILABLE, MERMAID_AVAILABLE, agent, attempts,
                    file, user_input, extracted, dfd, logic, db, rendered, calls,
                    fs, written, conv, tried, shown >>

\* enhanced_agent_brd.py:235-238: the line typed at the prompt; on EOF the
\* sample text, which is a non-blank text like <<"a">>.  A path may name an
\* existing file (os.path.exists) or not.
Prompt ==
    /\ pc = "ready" /\ entry = "cli"
    /\ \E u \in Texts \cup Paths :
          /\ user_input' = u
          /\ file' \in IF u \in Paths
                       THEN {None} \cup {f \in Files : f.ext = u[Len(u)]}
                       ELSE {None}
    /\ brd_text' = <<>>
    /\ NoLocals
    /\ outcome' = "running"
    /\ pc' = "read"
    /\ UNCHANGED << entry, PDF_AVAILABLE, MERMAID_AVAILABLE, agent, attempts,
                    generate_btn, fs >>

\* enhanced_agent_brd.py:197-213, u naming file f (None: no such file) holding `body`
read_file_if_needed(u, f, body) ==
    IF EndsWith(u, {".txt", ".md"}) /\ f # None
    THEN IF f.ok THEN body ELSE Raise
    ELSE IF PDF_AVAILABLE /\ EndsWith(u, {".pdf"}) /\ f # None
    THEN IF f.ok THEN Strip(body \o <<"\n">>) ELSE u
    ELSE u

\* line 241 without the strip()
no_input_unstripped(text) == text = <<>>

\* enhanced_agent_brd.py:241
no_input(text) == Strip(text) = <<>>

\* enhanced_agent_brd.py:240-243
ReadInput ==
    /\ pc = "read"
    /\ \E body \in Bodies :
          LET text == read_file_if_needed(user_input, file, body)
          IN  IF text = Raise
              THEN outcome' = "Exception" /\ pc' = EndPc /\ UNCHANGED brd_text
              ELSE /\ brd_text' = text
                   /\ IF no_input(text)
                      THEN outcome' = "InputAbsent" /\ pc' = EndPc
                      ELSE outcome' = "running" /\ pc' = "run"
    /\ UNCHANGED << entry, PDF_AVAILABLE, MERMAID_AVAILABLE, agent, attempts,
                    generate_btn, file, user_input, extracted, dfd, logic, db,
                    rendered, calls, fs, written, conv, tried, shown >>

-----------------------------------------------------------------------------
(* The generative service and the four tool functions *)

\* One generative-service call as the run's log records it
call(op, arg, out) == [op |-> op, arg |-> arg, out |-> out]

\* An uncaught exception ends the script
Abort ==
    /\ outcome' = "Exception"
    /\ pc' = EndPc

\* enhanced_agent_brd.py:137-139
parse_brd_tool(input_text, reply) == call("ParseBRD", input_text, reply)
\* enhanced_agent_brd.py:141-142
generate_dfd_tool(extracted_json, reply) == call("GenDFD", extracted_json, reply)
\* generate_logic_tool fed the BRD text instead of the extracted facts
generate_logic_tool_on_input(extracted_json, reply) == call("GenLogic", brd_text, reply)
\* enhanced_agent_brd.py:144-145
generate_logic_tool(extracted_json, reply) == call("GenLogic", extracted_json, reply)
\* enhanced_agent_brd.py:147-148
generate_db_tool(extracted_json, reply) == call("GenDB", extracted_json, reply)

\* apps.py:116, enhanced_agent_brd.py:252
Extract ==
    /\ pc = "run" /\ agent = NoAgent
    /\ \E reply \in Replies("ParseBRD") \cup {Fail} :
          LET c == parse_brd_tool(brd_text, reply)
          IN  /\ calls' = Append(calls, c)
              /\ IF c.out = Fail
                 THEN Abort /\ UNCHANGED extracted
                 ELSE extracted' = c.out /\ pc' = "dfd" /\ UNCHANGED outcome
    /\ UNCHANGED << entry, PDF_AVAILABLE, MERMAID_AVAILABLE, agent, attempts,
                    generate_btn, file, user_input, brd_text, dfd, logic, db,
                    rendered, fs, written, conv, tried, shown >>

\* apps.py:117, enhanced_agent_brd.py:255
SynthDFD ==
    /\ pc = "dfd"
    /\ \E reply \in Replies("GenDFD") \cup {Fail} :
          LET c == generate_dfd_tool(extracted, reply)
          IN  /\ calls' = Append(calls, c)
              /\ IF c.out = Fail
                 THEN Abort /\ UNCHANGED dfd
                 ELSE /\ dfd' = c.out
                      /\ pc' = IF entry = "web" THEN "logic" ELSE "render_dfd"
                      /\ UNCHANGED outcome
    /\ UNCHANGED << entry, PDF_AVAILABLE, MERMAID_AVAILABLE, agent, attempts,
                    generate_btn, file, user_input, brd_text, extracted, logic, db,
                    rendered, fs, written, conv, tried, shown >>

\* apps.py:118, enhanced_agent_brd.py:258
SynthLogic ==
    /\ pc = "logic"
    /\ \E reply \in Replies("GenLogic") \cup {Fail} :
          LET c == generate_logic_tool(extracted, reply)
          IN  /\ calls' = Append(calls, c)
              /\ IF c.out = Fail
                 THEN Abort /\ UNCHANGED logic
                 ELSE /\ logic' = c.out
                      /\ pc' = IF entry = "web" THEN "db" ELSE "render_logic"
                      /\ UNCHANGED outcome
    /\ UNCHANGED << entry, PDF_AVAILABLE, MERMAID_AVAILABLE, agent, attempts,
                    generate_btn, file, user_input, brd_text, extracted, dfd, db,
                    rendered, fs, written, conv, tried, shown >>

\* apps.py:119, enhanced_agent_brd.py:261
SynthDB ==
    /\ pc = "db"
    /\ \E reply \in Replies("GenDB") \cup {Fail} :
          LET c == generate_db_tool(extracted, reply)
          IN  /\ calls' = Append(calls, c)
              /\ IF c.out = Fail
                 THEN Abort /\ UNCHANGED db
                 ELSE /\ db' = c.out
                      /\ pc' = IF entry = "web" THEN "render_dfd" ELSE "render_erd"
                      /\ UNCHANGED outcome
    /\ UNCHANGED << entry, PDF_AVAILABLE, MERMAID_AVAILABLE, agent, attempts,
                    generate_btn, file, user_input, brd_text, extracted, dfd, logic,
                    rendered, fs, written, conv, tried, shown >>

-----------------------------------------------------------------------------
(* ToolCalling: the run is delegated to the agent *)

Tools == {"ParseBRD", "GenDFD", "GenLogic", "GenDB"}

\* enhanced_agent_brd.py:150-155: the function a tool name is bound to
tool_func(name, arg, reply) ==
    CASE name = "ParseBRD" -> parse_brd_tool(arg, reply)
      [] name = "GenDFD" -> generate_dfd_tool(arg, reply)
      [] name = "GenLogic" -> generate_logic_tool(arg, reply)
      [] name = "GenDB" -> generate_db_tool(arg, reply)

tool_calls == SelectSeq(calls, LAMBDA c : c.op \in Tools)

\* apps.py:109, enhanced_agent_brd.py:247: agent.invoke({"input": brd_text})
AgentInvoke ==
    /\ pc = "run" /\ agent # NoAgent
    /\ calls' = Append(calls, call("agent", brd_text, Unset))
    /\ pc' = "agent"
    /\ UNCHANGED << entry, PDF_AVAILABLE, MERMAID_AVAILABLE, agent, attempts,
                    generate_btn, file, user_input, brd_text, extracted, dfd, logic,
                    db, rendered, fs, written, conv, tried, shown, outcome >>

\* The agent calls a tool of its choice, on the input or on what an earlier
\* call returned; a tool that raises ends the invocation with its exception.
AgentTool ==
    /\ pc = "agent"
    /\ Len(tool_calls) < MaxToolCalls
    /\ \E name \in Tools :
       \E arg \in {brd_text} \cup {tool_calls[i].out : i \in 1..Len(tool_calls)} :
       \E reply \in Replies(name) \cup {Fail} :
          LET c == tool_func(name, arg, reply)
          IN  /\ calls' = Append(calls, c)
              /\ IF c.out = Fail THEN Abort ELSE UNCHANGED << pc, outcome >>
    /\ UNCHANGED << entry, PDF_AVAILABLE, MERMAID_AVAILABLE, agent, attempts,
                    generate_btn, file, user_input, brd_text, extracted, dfd, logic,
                    db, rendered, fs, written, conv, tried, shown >>

\* agent.invoke returns its final answer (apps.py:110-111,
\* enhanced_agent_brd.py:248), or raises when its own service call fails.
AgentReturn ==
    /\ pc = "agent"
    /\ \E answers \in BOOLEAN :
          IF answers
          THEN /\ pc' = IF entry = "web" THEN "display" ELSE "finish"
               /\ UNCHANGED outcome
          ELSE Abort
    /\ UNCHANGED << entry, PDF_AVAILABLE, MERMAID_AVAILABLE, agent, attempts,
                    generate_btn, file, user_input, brd_text, extracted, dfd, logic,
                    db, rendered, calls, fs, written, conv, tried, shown >>

-----------------------------------------------------------------------------
(* Rendering *)

\* render_and_save_mermaid whose except branch returns the error, not the code
render_and_save_mermaid_error(mermaid_code, diagram_type, renders) ==
    IF ~MERMAID_AVAILABLE
    THEN [ret |-> mermaid_code, image |-> NoFile]
    ELSE IF renders
    THEN [ret |-> <<"Rendered image saved: ", svg_name(diagram_type), "\nCode: ">>
                    \o mermaid_code,
          image |-> <<"svg">> \o mermaid_code]
    ELSE [ret |-> <<"Rendering failed">>, image |-> NoFile]

\* enhanced_agent_brd.py:215-231.  renders: whether Mermaid(...).svg(...) returns
\* rather than raises.  The result is the returned string and the image written
\* (NoFile: none).
render_and_save_mermaid(mermaid_code, diagram_type, renders) ==
    IF ~MERMAID_AVAILABLE
    THEN [ret |-> mermaid_code, image |-> NoFile]
    ELSE IF renders
    THEN [ret |-> <<"Rendered image saved: ", svg_name(diagram_type), "\nCode: ">>
                    \o mermaid_code,
          image |-> <<"svg">> \o mermaid_code]
    ELSE [ret |-> mermaid_code, image |-> NoFile]

code_of(k) == CASE k = "DFD" -> dfd [] k = "Logic" -> logic [] k = "ERD" -> db

\* Where the script goes after rendering kind k: apps.py:126-128 renders the
\* three in a row, enhanced_agent_brd.py:256-262 renders each after its synthesis.
after_render(k) ==
    IF entry = "web"
    THEN CASE k = "DFD" -> "render_logic" [] k = "Logic" -> "render_erd"
           [] k = "ERD" -> "save_mmd"
    ELSE CASE k = "DFD" -> "logic" [] k = "Logic" -> "db" [] k = "ERD" -> "finish"

render_pc(k) ==
    CASE k = "DFD" -> "render_dfd" [] k = "Logic" -> "render_logic"
      [] k = "ERD" -> "render_erd"

\* apps.py:126-128, enhanced_agent_brd.py:256, 259, 262
Render(k) ==
    /\ pc = render_pc(k)
    /\ \E renders \in BOOLEAN :
          LET r == render_and_save_mermaid(code_of(k), k, renders)
          IN  /\ rendered' = [rendered EXCEPT ![k] = r.ret]
              /\ IF r.image = NoFile
                 THEN UNCHANGED << fs, written >>
                 ELSE /\ fs' = [fs EXCEPT ![svg_name(k)] = r.image]
                      /\ written' = written \cup {svg_name(k)}
    /\ pc' = after_render(k)
    /\ UNCHANGED << entry, PDF_AVAILABLE, MERMAID_AVAILABLE, agent, attempts,
                    generate_btn, file, user_input, brd_text, extracted, dfd, logic,
                    db, calls, conv, tried, shown, outcome >>

\* apps.py:130-136
SaveMmd ==
    /\ pc = "save_mmd"
    /\ fs' = [fs EXCEPT ![mmd_name("DFD")] = dfd, ![mmd_name("Logic")] = logic,
                        ![mmd_name("ERD")] = db]
    /\ written' = written \cup {mmd_name(k) : k \in KindSet}
    /\ conv' = 1
    /\ pc' = "convert"
    /\ UNCHANGED << entry, PDF_AVAILABLE, MERMAID_AVAILABLE, agent, attempts,
                    generate_btn, file, user_input, brd_text, extracted, dfd, logic,
                    db, rendered, calls, tried, shown, outcome >>

\* apps.py:140, 147-148: cairosvg cannot be imported
ConvertUnavailable ==
    /\ pc = "convert" /\ conv = 1
    /\ pc' = "display"
    /\ UNCHANGED << entry, PDF_AVAILABLE, MERMAID_AVAILABLE, agent, attempts,
                    generate_btn, file, user_input, brd_text, extracted, dfd, logic,
                    db, rendered, calls, fs, written, conv, tried, shown, outcome >>

\* apps.py:141-146 and 149-150: one iteration of the loop, inside the one try
Convert ==
    /\ pc = "convert"
    /\ LET k == Kinds[conv]
           next == IF conv = Len(Kinds) THEN "display" ELSE "convert"
       IN  IF exists(svg_name(k))
           THEN \E converts \in BOOLEAN :
                   /\ tried' = tried \cup {k}
                   /\ IF converts
                      THEN /\ fs' = [fs EXCEPT ![pdf_name(k)] = <<"pdf">> \o fs[svg_name(k)]]
                           /\ written' = written \cup {pdf_name(k)}
                           /\ conv' = conv + 1
                           /\ pc' = next
                      ELSE /\ pc' = "display"
                           /\ UNCHANGED << fs, written, conv >>
           ELSE /\ conv' = conv + 1
                /\ pc' = next
                /\ UNCHANGED << fs, written, tried >>
    /\ UNCHANGED << entry, PDF_AVAILABLE, MERMAID_AVAILABLE, agent, attempts,
                    generate_btn, file, user_input, brd_text, extracted, dfd, logic,
                    db, rendered, calls, shown, outcome >>

-----------------------------------------------------------------------------
(* The page: downloads and previews *)

widget(w, name, data) == [widget |-> w, name |-> name, data |-> data]

\* apps.py:182-187, 199-204, 216-221
no_code(k) ==
    CASE k = "DFD" -> <<"No DFD generated">> [] k = "Logic" -> <<"No Logic generated">>
      [] k = "ERD" -> <<"No ERD generated">>
code_downloads ==
    {widget("download", mmd_name(k), IF code_of(k) = Unset THEN no_code(k) ELSE code_of(k)) :
        k \in KindSet}
\* apps.py:189-196, 206-213, 223-230
pdf_downloads ==
    {widget("download", pdf_name(k), fs[pdf_name(k)]) : k \in {j \in KindSet : exists(pdf_name(j))}}
\* apps.py:233-247
previews ==
    IF MERMAID_AVAILABLE
    THEN {widget("image", svg_name(k), fs[svg_name(k)]) : k \in {j \in KindSet : exists(svg_name(j))}}
    ELSE {}

\* apps.py:169-247
Display ==
    /\ pc = "display"
    /\ shown' = code_downloads \cup pdf_downloads \cup previews
    /\ outcome' = "complete"
    /\ pc' = EndPc
    /\ UNCHANGED << entry, PDF_AVAILABLE, MERMAID_AVAILABLE, agent, attempts,
                    generate_btn, file, user_input, brd_text, extracted, dfd, logic,
                    db, rendered, calls, fs, written, conv, tried >>

\* enhanced_agent_brd.py:264-267
Finish ==
    /\ pc = "finish"
    /\ outcome' = "complete"
    /\ pc' = EndPc
    /\ UNCHANGED << entry, PDF_AVAILABLE, MERMAID_AVAILABLE, agent, attempts,
                    generate_btn, file, user_input, brd_text, extracted, dfd, logic,
                    db, rendered, calls, fs, written, conv, tried, shown >>

Next ==
    \/ Import
    \/ Restart
    \/ Rerun
    \/ Widgets
    \/ ProcessInput
    \/ Prompt
    \/ ReadInput
    \/ AgentInvoke
    \/ AgentTool
    \/ AgentReturn
    \/ Extract
    \/ SynthDFD
    \/ SynthLogic
    \/ SynthDB
    \/ \E k \in KindSet : Render(k)
    \/ SaveMmd
    \/ ConvertUnavailable
    \/ Convert
    \/ Display
    \/ Finish

Spec == Init /\ [][Next]_vars

-----------------------------------------------------------------------------
(* Properties *)

DirectOrder == <<"ParseBRD", "GenDFD", "GenLogic", "GenDB">>
gen_op(k) == CASE k = "DFD" -> "GenDFD" [] k = "Logic" -> "GenLogic" [] k = "ERD" -> "GenDB"
RunOver == pc \in {"ready", "exited"} /\ outcome # "none"
Saved(k) == rendered[k][1] = "Rendered image saved: "

\* C1: a run whose input is empty or whitespace-only, with no file, ends
\* InputAbsent at the ingestion step with no generative-service call issued, in
\* the web script and at the command line, whatever the agent is.
C1_EmptyInputAbsent ==
    [][ /\ ( /\ pc = "process" /\ file = None /\ Strip(brd_text) = <<>> )
            => ( outcome' = "InputAbsent" /\ calls' = <<>> /\ pc' = EndPc )
        /\ ( /\ pc = "read" /\ Strip(user_input) = <<>> )
            => ( outcome' = "InputAbsent" /\ calls' = <<>> /\ pc' = EndPc )
        /\ ( outcome' = "InputAbsent" => calls' = <<>> /\ written' = {} )
      ]_vars

C1_Witness ==
    /\ entry = "cli" /\ agent = "AgentExecutor"
    /\ user_input = <<" ">>
    /\ outcome = "InputAbsent" /\ pc = "exited" /\ calls = <<>>

\* C2: once the parsing of an uploaded or named PDF or DOCX file has failed,
\* the run issues no generative-service call and writes no output file, and it
\* ends as InputAbsent with empty text.
C2_FailedIngestionHalts ==
    ( /\ file # None /\ ~file.ok /\ file.ext \in {".pdf", ".docx"}
      /\ pc \notin {"process", "read"} )
        => /\ calls = <<>>
           /\ written = {}
           /\ RunOver => ( outcome = "InputAbsent" /\ brd_text = <<>> )

\* C3: a DirectPipeline run whose logic synthesis failed keeps the flow
\* artifact, still issues the ERD call and completes with flow and ERD populated.
C3_LogicFailureIsolated ==
    ( /\ agent = NoAgent /\ RunOver
      /\ \E i \in 1..Len(calls) : calls[i].op = "GenLogic" /\ calls[i].out = Fail )
        => /\ dfd # Unset
           /\ \E i \in 1..Len(calls) : calls[i].op = "GenDB"
           /\ db # Unset
           /\ outcome = "complete"

\* C4: the ingestion step ends by yielding a string or InputAbsent; no decode
\* or parse error ends the run as an uncaught exception.
C4_IngestionNeverRaises ==
    [][ ( pc \in {"process", "read"} )
            => ( outcome' \in {"running", "InputAbsent"} ) ]_vars

\* C5: when a conversion has raised, conversion has still been attempted for
\* every diagram whose image exists by the time the page is displayed.
C5_ConversionsIndependent ==
    ( pc = "display" /\ agent = NoAgent /\ tried # {} )
        => \A k \in KindSet : exists(svg_name(k)) => k \in tried

\* C6: a render step that writes no image (renderer unavailable or renderer
\* exception) returns the markup, leaves the output directory as it was, and
\* the script goes on to its next step; a completed DirectPipeline run has
\* attempted the rendering of all three diagrams.
C6_RenderFailureContained ==
    [][ /\ \A k \in KindSet :
              ( pc = render_pc(k) /\ svg_name(k) \notin written' )
                  => /\ rendered'[k] = code_of(k)
                     /\ fs' = fs
                     /\ pc' = after_render(k)
                     /\ outcome' = "running"
        /\ ( outcome' = "complete" /\ agent' = NoAgent )
              => \A k \in KindSet : rendered'[k] # Unset
      ]_vars

C6_Witness ==
    /\ MERMAID_AVAILABLE /\ outcome = "complete" /\ agent = NoAgent
    /\ rendered["DFD"] = dfd /\ svg_name("DFD") \notin written
    /\ Saved("Logic") /\ Saved("ERD")
    /\ fs[svg_name("ERD")] = <<"svg">> \o db

\* C7: a DirectPipeline run issues its calls in the order extract, flow, logic,
\* ERD, the extraction on the input text and every synthesis on exactly the
\* string the extraction returned; a completed run has issued exactly the four.
C7_DirectOrder ==
    agent = NoAgent
        => /\ Len(calls) <= 4
           /\ \A i \in 1..Len(calls) : calls[i].op = DirectOrder[i]
           /\ calls # <<>> => calls[1].arg = brd_text
           /\ \A i \in 2..Len(calls) :
                 calls[1].out # Fail /\ calls[i].arg = calls[1].out
           /\ outcome = "complete"
                 => Len(calls) = 4 /\ \A i \in 1..4 : calls[i].out # Fail

C7_Witness ==
    /\ agent = NoAgent /\ outcome = "complete" /\ entry = "web"
    /\ Len(calls) = 4 /\ calls[1].out = <<"facts2">>
    /\ calls[4].arg = <<"facts2">>

\* C8: after the import the second construction has been attempted only if the
\* first failed, there is no agent exactly if both failed, the agent is not
\* rebuilt while the process lives, and a run delegates to the agent exactly if
\* there is one.
C8_StrategyFixed ==
    [][ /\ pc' # "import"
          => /\ attempts'[1].by = "create_react_agent"
             /\ Len(attempts') = 2 <=> ~attempts'[1].ok
             /\ agent' = NoAgent
                  <=> ( Len(attempts') = 2 /\ ~attempts'[1].ok /\ ~attempts'[2].ok )
             /\ calls' # <<>> => ( calls'[1].op = "agent" <=> agent' # NoAgent )
             /\ extracted' # Unset => agent' = NoAgent
        /\ ( pc # "import" /\ pc' # "import" ) => agent' = agent
      ]_vars

C8_Witness ==
    /\ agent = "initialize_agent" /\ outcome = "complete"
    /\ Len(calls) = 2 /\ calls[1].op = "agent" /\ calls[2].op = "GenDFD"

\* C9: at the end of a completed run, for every diagram kind whose synthesis
\* returned markup in the run, the markup file of that kind holds exactly a
\* text that synthesis returned.
C9_MarkupFileWritten ==
    ( RunOver /\ outcome = "complete" )
        => \A k \in KindSet :
              ( \E i \in 1..Len(calls) : calls[i].op = gen_op(k) /\ calls[i].out # Fail )
                  => \E i \in 1..Len(calls) :
                        /\ calls[i].op = gen_op(k)
                        /\ fs[mmd_name(k)] = calls[i].out

\* C10: an image is converted or previewed, and a document is offered for
\* download, only if the current run wrote it.
C10_NoStaleArtifacts ==
    /\ \A k \in tried : svg_name(k) \in written
    /\ \A w \in shown :
          ( w.widget = "image" \/ w.name \in {pdf_name(k) : k \in KindSet} )
              => w.name \in written

====
